---- MODULE Spec2Model ----
(***************************************************************************)
(* State-machine model of quantumfed's data module:                        *)
(*   src/quantumfed/data/datasets.py  (BaseDataset, SimpleNSLKDD,          *)
(*                                     get_dataset)                        *)
(*   src/main.py                      (the caller of the factory)          *)
(*                                                                         *)
(* A csv file is a sequence of rows <<number, category, label>>: one       *)
(* numeric feature column, one object (string) feature column and the      *)
(* label column.  Floating point values are kept as exact fractions        *)
(* <<numerator, denominator>>; for the sizes and test sizes used here the  *)
(* exact floor/ceiling agree with the ones Python computes on doubles.     *)
(* The pseudo random generator numpy seeds with random_state is an         *)
(* unknown but fixed function of the seed: it is the oracle `rng', whose   *)
(* value for a request is chosen the first time the request is made and    *)
(* is the same ever after.                                                 *)
(***************************************************************************)
EXTENDS Integers, Sequences, FiniteSets, TLC

\* ------------------------------------------------------------------ bounds
MaxRows == 3        \* rows of the csv file, general tables (Spec)
MaxLabels == 4      \* rows of the csv file, label-only tables (SpecSplit)
MaxPairRows == 3    \* rows of the csv file when two loaders are built (SpecPair)
MaxGets == 2        \* get_data() calls the caller makes on one returned loader

\* ------------------------------------------------------------- input sets
NumVals == {-1, 2}
CatOrder == <<"a", "b">>          \* the categories, in sorted order
Cats == {CatOrder[i] : i \in 1..Len(CatOrder)}
Labels == {0, 1}
Rows == {<<v, c, l>> : v \in NumVals, c \in Cats, l \in Labels}
LabelRows == {<<0, "a", l>> : l \in Labels}

DataPath == "data/raw/simple_nslkdd.csv"      \* the file that exists
AbsentPath == "data/raw/absent.csv"           \* no such file
Paths == {DataPath, AbsentPath}
Names == {"simple_nslkdd", "cifar10"}
TestSizes == {<<1, 5>>, <<1, 2>>, <<3, 4>>}   \* 0.2, 0.5, 0.75
Seeds == {42, 7}

SeqsUpTo(S, n) == UNION {[1..k -> S] : k \in 0..n}

\* ----------------------------------------------------------------- values
None == <<>>
Some(v) == <<v>>
IsNone(o) == o = <<>>
Val(o) == o[1]

\* ------------------------------------------------------- program constants
DefaultTestSize == <<1, 5>>       \* test_size=0.2
DefaultRandomState == 42          \* random_state=42

dataset_map == [n \in {"simple_nslkdd"} |-> "SimpleNSLKDD"]

\* list(dataset_map.keys())
AvailableDatasets == DOMAIN dataset_map

\* a mutant: every name is taken for a key
RegisteredAny(name) == TRUE
\* name in dataset_map
Registered(name) == name \in DOMAIN dataset_map

\* the ValueError get_dataset raises for a name that is no key
UnknownDatasetError(name) ==
    [type |-> "ValueError", what |-> "not recognized", name |-> name,
     available |-> AvailableDatasets]

\* except (ValueError, FileNotFoundError)
MainCatches == {"ValueError", "FileNotFoundError"}

\* ------------------------------------------------------------- _load_data
EmptyDataFrame == [columns |-> <<>>, rows |-> <<>>]

\* pd.read_csv(header=None) and the synthesized names feature_i..., label
ColumnNames(width) ==
    [j \in 1..width |-> IF j = width THEN "label" ELSE <<"feature", j - 1>>]
ReadCsv(content) == [columns |-> ColumnNames(3), rows |-> content]

\* ------------------------------------------------------------ _preprocess
Min(S) == CHOOSE x \in S : \A z \in S : x <= z
Max(S) == CHOOSE x \in S : \A z \in S : x >= z

\* y = df.iloc[:, -1]
LabelColumn(df) == [i \in 1..Len(df.rows) |-> df.rows[i][Len(df.columns)]]

\* the categories observed in the object column, sorted
Observed(rows) ==
    LET seen(c) == \E i \in 1..Len(rows) : rows[i][2] = c
    IN  SelectSeq(CatOrder, seen)

\* pd.get_dummies(X, drop_first=True): numeric columns are kept, the object
\* column becomes one 0/1 column per observed category but the first
GetDummies(rows) ==
    LET kept == Tail(Observed(rows))
    IN  [i \in 1..Len(rows) |->
            <<rows[i][1]>> \o
            [k \in 1..Len(kept) |-> IF rows[i][2] = kept[k] THEN 1 ELSE 0]]

Column(M, j) == {M[i][j] : i \in 1..Len(M)}

\* a mutant: one minimum and maximum for the whole matrix
MinMaxScaleGlobal(M) ==
    LET all == UNION {Column(M, j) : j \in 1..Len(M[1])}
        range == Max(all) - Min(all)
    IN  [i \in 1..Len(M) |-> [j \in 1..Len(M[1]) |->
            <<M[i][j] - Min(Column(M, j)), IF range = 0 THEN 1 ELSE range>>]]

\* MinMaxScaler().fit_transform(X): per column (x - min) / (max - min), a
\* zero range being replaced by 1
MinMaxScale(M) ==
    [i \in 1..Len(M) |-> [j \in 1..Len(M[1]) |->
        LET mn == Min(Column(M, j))
            range == Max(Column(M, j)) - mn
        IN  <<M[i][j] - mn, IF range = 0 THEN 1 ELSE range>>]]

\* ------------------------------------------------------------ _split_data
Floor(n, ts) == (n * ts[1]) \div ts[2]
Ceil(n, ts) == (n * ts[1] + ts[2] - 1) \div ts[2]

Classes(y) == {y[i] : i \in 1..Len(y)}
ClassCount(y, c) == Cardinality({i \in 1..Len(y) : y[i] = c})

\* test_samples = int(num_samples * self.test_size)
TestSamples(y, ts) == Floor(Len(y), ts)

\* a mutant: strictly more test samples than classes
ShouldStratifyStrict(y, ts) == TestSamples(y, ts) > Cardinality(Classes(y))

\* should_stratify = (test_samples >= num_classes)
ShouldStratify(y, ts) == TestSamples(y, ts) >= Cardinality(Classes(y))

\* sklearn's sizes of the two partitions for a float test_size
NTest(n, ts) == Ceil(n, ts)
NTrain(n, ts) == n - NTest(n, ts)

\* train_test_split raises ValueError: an empty train set, or a stratified
\* split that a class with one member or too small a partition rules out
SplitRaises(y, ts, stratify) ==
    \/ NTrain(Len(y), ts) = 0
    \/ /\ stratify
       /\ \/ \E c \in Classes(y) : ClassCount(y, c) < 2
          \/ NTrain(Len(y), ts) < Cardinality(Classes(y))
          \/ NTest(Len(y), ts) < Cardinality(Classes(y))

RECURSIVE SumCounts(_, _)
SumCounts(a, S) ==
    IF S = {} THEN 0
    ELSE LET c == CHOOSE x \in S : TRUE IN a[c] + SumCounts(a, S \ {c})

\* sklearn's _approximate_mode: the per class counts of a draw of n_draws
\* rows, the floor of the proportional share plus one for the classes with
\* the largest remainders (ties broken by the generator)
ApproximateModes(y, n_draws) ==
    LET n == Len(y)
        cs == Classes(y)
        fl(c) == (ClassCount(y, c) * n_draws) \div n
        rem(c) == (ClassCount(y, c) * n_draws) % n
    IN  {a \in [cs -> 0..n] :
            /\ \A c \in cs : a[c] \in {fl(c), fl(c) + 1}
            /\ \A c \in cs : a[c] = fl(c) + 1 => rem(c) > 0
            /\ \A c, d \in cs : (a[c] = fl(c) + 1 /\ a[d] = fl(d))
                                    => rem(c) >= rem(d)
            /\ SumCounts(a, cs) = n_draws}

Shuffles(n) ==
    {p \in [1..n -> 1..n] : \A i, j \in 1..n : p[i] = p[j] => i = j}

Take(s, k) == [i \in 1..k |-> s[i]]
Drop(s, k) == [i \in 1..(Len(s) - k) |-> s[i + k]]

\* the index lists train_test_split may pick: a shuffle cut into the test
\* rows and the train rows, with the classes' train counts those of
\* _approximate_mode when stratified
SplitOutcomes(y, ts, stratify) ==
    LET n == Len(y)
        nte == NTest(n, ts)
        inTrain(p, c) == Cardinality({k \in (nte + 1)..n : y[p[k]] = c})
    IN  {[train |-> Drop(p, nte), test |-> Take(p, nte)] :
            p \in {q \in Shuffles(n) :
                     stratify =>
                        \E a \in ApproximateModes(y, n - nte) :
                           \A c \in Classes(y) : inTrain(q, c) = a[c]}}

\* _safe_indexing(a, indices)
Index(a, idx) == [k \in 1..Len(idx) |-> a[idx[k]]]

\* a mutant: the labels are taken in the reverse order of the rows
IndexLabelsReversed(y, idx) ==
    [k \in 1..Len(idx) |-> y[idx[Len(idx) + 1 - k]]]
\* the same index list cuts X and y
IndexLabels(y, idx) == Index(y, idx)

\* a mutant: one process-wide generator, advanced by every split
RngKeyGlobal(seed, y, ts, stratify, drawn) ==
    <<seed, Len(y), ts, IF stratify THEN Some(y) ELSE None, drawn>>

\* random_state=self.random_state: a generator seeded for this call alone,
\* whose answer depends on the seed and on what is asked of it
RngKey(seed, y, ts, stratify, drawn) ==
    <<seed, Len(y), ts, IF stratify THEN Some(y) ELSE None, 0>>

\* ------------------------------------------------------------------ state
VARIABLES
    disk,       \* the rows of the file at DataPath
    loaders,    \* every BaseDataset object created so far
    pc,         \* where the program is
    call,       \* the call in progress: arguments, loader, output, error
    results,    \* the finished calls
    rng,        \* request -> answer of the seeded generators, as far as asked
    maxCalls    \* how many calls the caller makes

vars == <<disk, loaders, pc, call, results, rng, maxCalls>>

NoCall ==
    [fn |-> "", name |-> "", data_path |-> "", test_size |-> None,
     random_state |-> None, loader |-> 0, out |-> <<>>, exc |-> None,
     gets |-> 0, got |-> None, status |-> "none"]

Emit(c, line) == [c EXCEPT !.out = Append(@, line)]

NewLoader(path, ts, seed) ==
    [data_path |-> path, test_size |-> ts, random_state |-> seed,
     X_train |-> None, y_train |-> None, X_test |-> None, y_test |-> None,
     steps |-> <<>>, raw_df |-> None, X |-> None, y |-> None,
     stratify |-> None, train_idx |-> None, test_idx |-> None]

Raise(c, e) == [c EXCEPT !.exc = Some(e)]

\* ---------------------------------------------------------------- initial
InitProgram ==
    /\ loaders = <<>>
    /\ pc = "main"
    /\ call = NoCall
    /\ results = <<>>
    /\ rng = <<>>

Init ==
    /\ disk \in SeqsUpTo(Rows, MaxRows)
    /\ maxCalls = 1
    /\ InitProgram

InitSplit ==
    /\ disk \in SeqsUpTo(LabelRows, MaxLabels)
    /\ maxCalls = 1
    /\ InitProgram

InitPair ==
    /\ disk \in SeqsUpTo(LabelRows, MaxPairRows)
    /\ maxCalls = 2
    /\ InitProgram

\* ----------------------------------------------------------------- main.py
\* dataset_loader = get_dataset(name=dataset_name, data_path=data_path)
Main_GetDataset ==
    /\ pc = "main"
    /\ Len(results) < maxCalls
    /\ \E name \in Names, path \in Paths :
          call' = [NoCall EXCEPT !.fn = "get_dataset", !.name = name,
                                 !.data_path = path, !.status = "running"]
    /\ pc' = "get_dataset"
    /\ UNCHANGED <<disk, loaders, results, rng, maxCalls>>

\* a caller that constructs the loader itself, with its own test_size and
\* random_state
Main_Construct ==
    /\ pc = "main"
    /\ Len(results) < maxCalls
    /\ \E path \in Paths, ts \in TestSizes,
          seed \in Seeds :
          call' = [NoCall EXCEPT !.fn = "SimpleNSLKDD", !.data_path = path,
                                 !.test_size = Some(ts),
                                 !.random_state = Some(seed),
                                 !.status = "running"]
    /\ pc' = "init"
    /\ UNCHANGED <<disk, loaders, results, rng, maxCalls>>

\* ------------------------------------------------------------ get_dataset
GetDataset_Unknown ==
    /\ pc = "get_dataset"
    /\ ~Registered(call.name)
    /\ call' = Raise(call, UnknownDatasetError(call.name))
    /\ pc' = "raised"
    /\ UNCHANGED <<disk, loaders, results, rng, maxCalls>>

GetDataset_Construct ==
    /\ pc = "get_dataset"
    /\ Registered(call.name)
    /\ pc' = "init"
    /\ UNCHANGED <<disk, loaders, call, results, rng, maxCalls>>

\* ------------------------------------------------------------ BaseDataset
\* a mutant: the constructor returns without running the pipeline
BaseDataset_init_next_lazy == "returned"
\* self._load_and_process()
BaseDataset_init_next == "load"

BaseDataset_init ==
    /\ pc = "init"
    /\ loaders' = Append(loaders,
          NewLoader(call.data_path,
                    IF IsNone(call.test_size) THEN DefaultTestSize
                    ELSE Val(call.test_size),
                    IF IsNone(call.random_state) THEN DefaultRandomState
                    ELSE Val(call.random_state)))
    /\ call' = [call EXCEPT !.loader = Len(loaders) + 1]
    /\ pc' = BaseDataset_init_next
    /\ UNCHANGED <<disk, results, rng, maxCalls>>

Self == loaders[call.loader]
Step(l, name) == [l EXCEPT !.steps = Append(@, name)]
SetSelf(l) == loaders' = [loaders EXCEPT ![call.loader] = l]

\* _load_and_process up to raw_df, with SimpleNSLKDD._load_data: the file is
\* there and has rows
LoadData_Read ==
    /\ pc = "load"
    /\ Self.data_path = DataPath
    /\ disk # <<>>
    /\ SetSelf([Step(Self, "load") EXCEPT !.raw_df = Some(ReadCsv(disk))])
    /\ call' = Emit(call, <<"Loading data from", Self.data_path>>)
    /\ pc' = "preprocess"
    /\ UNCHANGED <<disk, results, rng, maxCalls>>

\* the file is there and is empty: read_csv raises EmptyDataError, a
\* ValueError, which _load_data does not catch
LoadData_EmptyFile ==
    /\ pc = "load"
    /\ Self.data_path = DataPath
    /\ disk = <<>>
    /\ SetSelf(Step(Self, "load"))
    /\ call' = Raise(Emit(call, <<"Loading data from", Self.data_path>>),
                     [type |-> "ValueError", what |-> "EmptyDataError"])
    /\ pc' = "raised"
    /\ UNCHANGED <<disk, results, rng, maxCalls>>

\* except FileNotFoundError: two lines are printed and an empty DataFrame
\* is returned
LoadData_Missing ==
    /\ pc = "load"
    /\ Self.data_path # DataPath
    /\ SetSelf([Step(Self, "load") EXCEPT !.raw_df = Some(EmptyDataFrame)])
    /\ call' = Emit(Emit(Emit(call,
                  <<"Loading data from", Self.data_path>>),
                  <<"Error: Data file not found at", Self.data_path>>),
                  <<"Please create a dummy data file to proceed.">>)
    /\ pc' = "preprocess"
    /\ UNCHANGED <<disk, results, rng, maxCalls>>

\* df.iloc[:, -1] of a DataFrame with no column raises IndexError
Preprocess_IndexError ==
    /\ pc = "preprocess"
    /\ Val(Self.raw_df).columns = <<>>
    /\ SetSelf(Step(Self, "preprocess"))
    /\ call' = Raise(Emit(call, <<"Preprocessing data...">>),
                     [type |-> "IndexError",
                      what |-> "single positional indexer is out-of-bounds"])
    /\ pc' = "raised"
    /\ UNCHANGED <<disk, results, rng, maxCalls>>

Preprocess ==
    /\ pc = "preprocess"
    /\ Val(Self.raw_df).columns # <<>>
    /\ LET df == Val(Self.raw_df)
       IN  SetSelf([Step(Self, "preprocess") EXCEPT
                      !.X = Some(MinMaxScale(GetDummies(df.rows))),
                      !.y = Some(LabelColumn(df))])
    /\ call' = Emit(call, <<"Preprocessing data...">>)
    /\ pc' = "split"
    /\ UNCHANGED <<disk, results, rng, maxCalls>>

SplitWarning(y, ts) ==
    <<"Warning: Test set size is smaller than number of classes",
      TestSamples(y, ts), Cardinality(Classes(y))>>

\* the lines _split_data prints before train_test_split is called
SplitEmit(c, y, ts) ==
    IF ShouldStratify(y, ts) THEN c ELSE Emit(c, SplitWarning(y, ts))

\* train_test_split raises
SplitData_Raise ==
    /\ pc = "split"
    /\ LET y == Val(Self.y)
           ts == Self.test_size
           st == ShouldStratify(y, ts)
       IN  /\ SplitRaises(y, ts, st)
           /\ SetSelf([Step(Self, "split") EXCEPT !.stratify = Some(st)])
           /\ call' = Raise(SplitEmit(call, y, ts),
                            [type |-> "ValueError",
                             what |-> "train_test_split"])
    /\ pc' = "raised"
    /\ UNCHANGED <<disk, results, rng, maxCalls>>

SplitData ==
    /\ pc = "split"
    /\ LET X == Val(Self.X)
           y == Val(Self.y)
           ts == Self.test_size
           st == ShouldStratify(y, ts)
           key == RngKey(Self.random_state, y, ts, st,
                         Cardinality(DOMAIN rng))
       IN  /\ ~SplitRaises(y, ts, st)
           /\ \E o \in (IF key \in DOMAIN rng THEN {rng[key]}
                        ELSE SplitOutcomes(y, ts, st)) :
                 /\ rng' = IF key \in DOMAIN rng THEN rng
                           ELSE (key :> o) @@ rng
                 /\ SetSelf([Step(Self, "split") EXCEPT
                       !.stratify = Some(st),
                       !.train_idx = Some(o.train),
                       !.test_idx = Some(o.test),
                       !.X_train = Some(Index(X, o.train)),
                       !.X_test = Some(Index(X, o.test)),
                       !.y_train = Some(IndexLabels(y, o.train)),
                       !.y_test = Some(IndexLabels(y, o.test))])
                 /\ call' = Emit(Emit(Emit(SplitEmit(call, y, ts),
                       <<"Data split completed.">>),
                       <<"Train set size:", Len(o.train)>>),
                       <<"Test set size:", Len(o.test)>>)
    /\ pc' = "ready"
    /\ UNCHANGED <<disk, results, maxCalls>>

\* print("Dataset ready."), and the constructor returns the loader
LoadAndProcess_Return ==
    /\ pc = "ready"
    /\ SetSelf(Step(Self, "ready"))
    /\ call' = Emit(call, <<"Dataset ready.">>)
    /\ pc' = "returned"
    /\ UNCHANGED <<disk, results, rng, maxCalls>>

\* return self.X_train, self.y_train, self.X_test, self.y_test
get_data(l) == <<l.X_train, l.y_train, l.X_test, l.y_test>>

\* a mutant: the accessor runs the pipeline again
GetData_next_reload == "load"
\* get_data only reads
GetData_next == "returned"

\* X_train, y_train, X_test, y_test = dataset_loader.get_data()
Main_GetData ==
    /\ pc = "returned"
    /\ call.gets < MaxGets
    /\ call' = [call EXCEPT !.got = Some(get_data(Self)), !.gets = @ + 1]
    /\ pc' = GetData_next
    /\ UNCHANGED <<disk, loaders, results, rng, maxCalls>>

\* the shapes are printed and the call is over
Main_Success ==
    /\ pc = "returned"
    /\ call.gets >= 1
    /\ results' = Append(results,
          [Emit(call, <<"Data Loading and Processing Successful">>)
             EXCEPT !.status = "ok"])
    /\ call' = NoCall
    /\ pc' = "main"
    /\ UNCHANGED <<disk, loaders, rng, maxCalls>>

\* except (ValueError, FileNotFoundError) as e: the error is printed
Main_Except ==
    /\ pc = "raised"
    /\ Val(call.exc).type \in MainCatches
    /\ results' = Append(results,
          [Emit(call, <<"An Error Occurred", Val(call.exc).what>>)
             EXCEPT !.status = "reported"])
    /\ call' = NoCall
    /\ pc' = "main"
    /\ UNCHANGED <<disk, loaders, rng, maxCalls>>

\* any other exception leaves main: the process ends with a traceback
Main_Crash ==
    /\ pc = "raised"
    /\ Val(call.exc).type \notin MainCatches
    /\ results' = Append(results, [call EXCEPT !.status = "crashed"])
    /\ call' = NoCall
    /\ pc' = "crashed"
    /\ UNCHANGED <<disk, loaders, rng, maxCalls>>

Next ==
    \/ Main_GetDataset
    \/ Main_Construct
    \/ GetDataset_Unknown
    \/ GetDataset_Construct
    \/ BaseDataset_init
    \/ LoadData_Read
    \/ LoadData_EmptyFile
    \/ LoadData_Missing
    \/ Preprocess_IndexError
    \/ Preprocess
    \/ SplitData_Raise
    \/ SplitData
    \/ LoadAndProcess_Return
    \/ Main_GetData
    \/ Main_Success
    \/ Main_Except
    \/ Main_Crash

\* one call, any table of up to MaxRows rows
Spec == Init /\ [][Next]_vars
\* one call, a table of up to MaxLabels rows that differ in their labels
SpecSplit == InitSplit /\ [][Next]_vars
\* two calls on the same file
SpecPair == InitPair /\ [][Next]_vars

\* ------------------------------------------------------------- properties
Pipeline == <<"load", "preprocess", "split", "ready">>
IsPrefix(a, b) == Len(a) <= Len(b) /\ \A k \in 1..Len(a) : a[k] = b[k]
Ran(l, step) == \E k \in 1..Len(l.steps) : l.steps[k] = step
Ready(l) == l.steps = Pipeline

\* the calls made so far, the one in progress last
Calls == IF call.status = "running" THEN Append(results, call) ELSE results
\* the call that built loader i
CallOf(i) == Calls[CHOOSE k \in 1..Len(Calls) : Calls[k].loader = i]
\* get_dataset is over for call c
PastFactory(c) == c.status # "running" \/ pc # "get_dataset"
Lines(c, head) == {k \in 1..Len(c.out) : c.out[k][1] = head}

\* C1: get_dataset with a name that is no key of the registry raises a
\* ValueError that lists exactly the registered names, before any loader is
\* constructed: the call has no loader, nothing of the pipeline was printed
\* and every loader there is belongs to another call.
C1_UnknownDataset ==
    /\ \A k \in 1..Len(Calls) :
          LET c == Calls[k]
          IN  (c.fn = "get_dataset" /\ c.name \notin DOMAIN dataset_map
                 /\ PastFactory(c))
              => /\ ~IsNone(c.exc)
                 /\ Val(c.exc).type = "ValueError"
                 /\ Val(c.exc).what = "not recognized"
                 /\ Val(c.exc).available = DOMAIN dataset_map
                 /\ c.loader = 0
                 /\ \A n \in 1..Len(c.out) : c.out[n][1] = "An Error Occurred"
    /\ Len(loaders) = Cardinality({k \in 1..Len(Calls) : Calls[k].loader # 0})

C1_Witness ==
    \E k \in 1..Len(results) :
        /\ results[k].fn = "get_dataset"
        /\ results[k].name \notin DOMAIN dataset_map
        /\ results[k].status = "reported"

\* C2: a call whose path does not exist never ends in an exception nobody
\* handles; the raw load printed the diagnostic and produced the empty
\* table.
C2_MissingFile ==
    \A k \in 1..Len(results) :
        LET c == results[k]
        IN  (c.loader # 0 /\ c.data_path # DataPath)
            => /\ c.status # "crashed"
               /\ loaders[c.loader].raw_df = Some(EmptyDataFrame)
               /\ Lines(c, "Error: Data file not found at") # {}

\* C3: when the raw load gave the empty table, the call ends neither in a
\* success nor in a crash: it ends in an error the caller reports.
C3_EmptyTableReported ==
    \A k \in 1..Len(results) :
        LET c == results[k]
        IN  (c.loader # 0 /\ loaders[c.loader].raw_df = Some(EmptyDataFrame))
            => c.status = "reported"

\* C4: a loader the caller holds has run load, preprocess and split, and
\* get_data() gives X_train, y_train, X_test, y_test in that order, none of
\* them None.
C4_Eager ==
    /\ pc = "returned" =>
          /\ Ready(Self)
          /\ \A n \in 1..4 : ~IsNone(get_data(Self)[n])
    /\ \A k \in 1..Len(Calls) :
          LET c == Calls[k]
          IN  ~IsNone(c.got) =>
                 /\ Len(Val(c.got)) = 4
                 /\ \A n \in 1..4 : ~IsNone(Val(c.got)[n])
                 /\ Val(c.got)[1] = loaders[c.loader].X_train
                 /\ Val(c.got)[2] = loaders[c.loader].y_train
                 /\ Val(c.got)[3] = loaders[c.loader].X_test
                 /\ Val(c.got)[4] = loaders[c.loader].y_test

C4_Witness ==
    \E k \in 1..Len(results) :
        /\ results[k].fn = "get_dataset"
        /\ results[k].status = "ok"
        /\ ~IsNone(results[k].got)

\* the four containers of l are one partition of the paired rows
IsPartition(l) ==
    /\ ~IsNone(l.X_train) /\ ~IsNone(l.y_train)
    /\ ~IsNone(l.X_test) /\ ~IsNone(l.y_test)
    /\ LET X == Val(l.X)
           y == Val(l.y)
           Xtr == Val(l.X_train)
           ytr == Val(l.y_train)
           Xte == Val(l.X_test)
           yte == Val(l.y_test)
       IN  /\ Len(X) = Len(y)
           /\ Len(Xtr) + Len(Xte) = Len(X)
           /\ Len(Xtr) = Len(ytr)
           /\ Len(Xte) = Len(yte)
           /\ \E tr \in [1..Len(Xtr) -> 1..Len(X)],
                 te \in [1..Len(Xte) -> 1..Len(X)] :
                 /\ \A i \in 1..Len(X) :
                       Cardinality({k \in 1..Len(tr) : tr[k] = i})
                         + Cardinality({k \in 1..Len(te) : te[k] = i}) = 1
                 /\ \A k \in 1..Len(tr) : Xtr[k] = X[tr[k]] /\ ytr[k] = y[tr[k]]
                 /\ \A k \in 1..Len(te) : Xte[k] = X[te[k]] /\ yte[k] = y[te[k]]
           /\ ytr = Index(y, Val(l.train_idx))
           /\ yte = Index(y, Val(l.test_idx))
           /\ Xtr = Index(X, Val(l.train_idx))
           /\ Xte = Index(X, Val(l.test_idx))

FloorTestSamples(l) == (Len(Val(l.y)) * l.test_size[1]) \div l.test_size[2]
NumClasses(l) == Cardinality({Val(l.y)[k] : k \in 1..Len(Val(l.y))})
WarningHead == "Warning: Test set size is smaller than number of classes"

\* C6: the split step takes the stratified branch (the labels are passed as
\* the stratify option) exactly when floor(num_samples * test_size) >=
\* num_classes; otherwise one warning is printed, with exactly that
\* test_samples and that num_classes, and on the stratified branch none is.
C6_StratificationBoundary ==
    \A i \in 1..Len(loaders) :
        LET l == loaders[i]
            c == CallOf(i)
        IN  Ran(l, "split") =>
               /\ ~IsNone(l.stratify)
               /\ Val(l.stratify) <=> (FloorTestSamples(l) >= NumClasses(l))
               /\ Val(l.stratify) => Lines(c, WarningHead) = {}
               /\ ~Val(l.stratify) =>
                     /\ Cardinality(Lines(c, WarningHead)) = 1
                     /\ \A n \in Lines(c, WarningHead) :
                           c.out[n] = <<WarningHead, FloorTestSamples(l),
                                        NumClasses(l)>>

C6_Witness ==
    \E i \in 1..Len(loaders) :
        /\ Ran(loaders[i], "split")
        /\ FloorTestSamples(loaders[i]) = 1
        /\ NumClasses(loaders[i]) = 2
        /\ Lines(CallOf(i), WarningHead) # {}

\* the number of rows of class c among the rows idx of l
Among(l, idx, c) ==
    Cardinality({k \in 1..Len(idx) : Val(l.y)[idx[k]] = c})
\* the count cnt is the proportional share of class c in a partition of
\* size rows, rounded down or up
Proportional(l, c, rows, cnt) ==
    LET total == Cardinality({k \in 1..Len(Val(l.y)) : Val(l.y)[k] = c})
        n == Len(Val(l.y))
    IN  /\ cnt * n >= total * rows - (n - 1)
        /\ cnt * n <= total * rows + (n - 1)

\* C7: whenever floor(num_samples * test_size) >= num_classes the split
\* completes as a stratified split, every class having its proportional
\* share (rounded down or up) of the train and of the test partition.
C7_StratifiedCompletes ==
    \A i \in 1..Len(loaders) :
        LET l == loaders[i]
        IN  (Ran(l, "split") /\ FloorTestSamples(l) >= NumClasses(l))
            => /\ l.stratify = Some(TRUE)
               /\ ~IsNone(l.train_idx)
               /\ \A c \in {Val(l.y)[k] : k \in 1..Len(Val(l.y))} :
                     /\ Proportional(l, c, Len(Val(l.train_idx)),
                                     Among(l, Val(l.train_idx), c))
                     /\ Proportional(l, c, Len(Val(l.test_idx)),
                                     Among(l, Val(l.test_idx), c))

SameParameters(a, b) ==
    /\ a.data_path = b.data_path
    /\ a.test_size = b.test_size
    /\ a.random_state = b.random_state

\* C9: two loaders built with the same path (the same file), test_size and
\* random_state take the same branch and end with the same partition, or
\* both fail in the split, whatever was constructed before.
C9_Deterministic ==
    \A i, j \in 1..Len(loaders) :
        LET a == loaders[i]
            b == loaders[j]
        IN  (SameParameters(a, b) /\ Ran(a, "split") /\ Ran(b, "split"))
            => /\ a.stratify = b.stratify
               /\ a.train_idx = b.train_idx
               /\ a.test_idx = b.test_idx
               /\ get_data(a) = get_data(b)

C9_Witness ==
    /\ Len(loaders) = 2
    /\ SameParameters(loaders[1], loaders[2])
    /\ Ready(loaders[1])
    /\ Ready(loaders[2])
    /\ Len(Val(loaders[1].y)) >= 3

Phase(l) ==
    IF l.steps = <<>> THEN "Constructed"
    ELSE IF l.steps = Pipeline THEN "Ready" ELSE "Loading"

\* C10: a loader starts Constructed and runs load, preprocess, split once
\* each, in that order; once Ready no step changes it, get_data included,
\* and every get_data call of a caller returns the same tuple.
C10_Lifecycle ==
    [][/\ \A i \in 1..Len(loaders') :
             /\ IsPrefix(loaders'[i].steps, Pipeline)
             /\ i > Len(loaders) => Phase(loaders'[i]) = "Constructed"
             /\ i <= Len(loaders) =>
                   /\ IsPrefix(loaders[i].steps, loaders'[i].steps)
                   /\ Len(loaders'[i].steps) <= Len(loaders[i].steps) + 1
                   /\ Phase(loaders[i]) = "Ready" => loaders'[i] = loaders[i]
       /\ (~IsNone(call.got) /\ ~IsNone(call'.got)) => call'.got = call.got
       /\ (pc = "returned" /\ pc' = "returned") =>
             /\ loaders' = loaders
             /\ Val(call'.got) = get_data(loaders[call.loader])
             /\ Phase(loaders'[call'.loader]) = "Ready"]_vars

C10_Witness ==
    /\ pc = "returned"
    /\ call.gets = MaxGets
    /\ Phase(Self) = "Ready"
====
